---- MODULE Spec2Model ----
(***************************************************************************)
(* Model of gallery_dl/__init__.py: the input-file parser                  *)
(* (parse_inputfile) and the batch part of main() -- collecting the        *)
(* targets of the input files, the dispatch loop with its per-target       *)
(* configuration overlay, and the top-level handlers of fatal errors.      *)
(*                                                                         *)
(* Strings are sequences of one-character strings, so that strip(),        *)
(* partition(), rpartition() and json.loads() are computed character by    *)
(* character.                                                              *)
(***************************************************************************)
EXTENDS Integers, Sequences, FiniteSets, TLC

(***************************************************************************)
(* Bounds of the model                                                     *)
(***************************************************************************)
\* lines of the input file in the batch specification (Spec)
MaxLines == 3
\* lines of the input file in the parser specification (SpecParse)
MaxParseLines == 3

(***************************************************************************)
(* String helpers (str.strip, str.partition, str.rpartition)               *)
(***************************************************************************)
Whitespace == {" ", "\n", "\t"}

Drop(s, n) == SubSeq(s, n + 1, Len(s))

RECURSIVE LStrip(_)
LStrip(s) ==
    IF s # <<>> /\ Head(s) \in Whitespace THEN LStrip(Tail(s)) ELSE s

RECURSIVE RStrip(_)
RStrip(s) ==
    IF s # <<>> /\ s[Len(s)] \in Whitespace
    THEN RStrip(SubSeq(s, 1, Len(s) - 1))
    ELSE s

Strip(s) == RStrip(LStrip(s))

\* index of the first / last occurrence of character c in s, 0 when absent
Find(s, c) ==
    IF \E k \in 1..Len(s) : s[k] = c
    THEN CHOOSE k \in 1..Len(s) : s[k] = c /\ \A j \in 1..(k - 1) : s[j] # c
    ELSE 0

RFind(s, c) ==
    IF \E k \in 1..Len(s) : s[k] = c
    THEN CHOOSE k \in 1..Len(s) : s[k] = c /\ \A j \in (k + 1)..Len(s) : s[j] # c
    ELSE 0

\* str.partition(c): <<head, sep, tail>>, <<s, "", "">> when c is absent
Partition(s, c) ==
    LET k == Find(s, c)
    IN  IF k = 0 THEN <<s, <<>>, <<>>>>
        ELSE <<SubSeq(s, 1, k - 1), <<c>>, Drop(s, k)>>

\* str.rpartition(c): <<head, sep, tail>>, <<"", "", s>> when c is absent
RPartition(s, c) ==
    LET k == RFind(s, c)
    IN  IF k = 0 THEN <<<<>>, <<>>, s>>
        ELSE <<SubSeq(s, 1, k - 1), <<c>>, Drop(s, k)>>

(***************************************************************************)
(* json.loads on the fragment of JSON the modelled inputs use: the         *)
(* literals true, false and null, integers, and strings without escapes.   *)
(* A decoded value is a record [kind, num, str]; anything else the         *)
(* fragment does not cover is a ValueError (ok = FALSE).                   *)
(***************************************************************************)
Digits == {"0", "1", "2", "3", "4", "5", "6", "7", "8", "9"}

DigitVal(c) ==
    CASE c = "0" -> 0 [] c = "1" -> 1 [] c = "2" -> 2 [] c = "3" -> 3
      [] c = "4" -> 4 [] c = "5" -> 5 [] c = "6" -> 6 [] c = "7" -> 7
      [] c = "8" -> 8 [] c = "9" -> 9

RECURSIVE DecimalVal(_)
DecimalVal(s) ==
    IF s = <<>> THEN 0
    ELSE 10 * DecimalVal(SubSeq(s, 1, Len(s) - 1)) + DigitVal(s[Len(s)])

IsJsonInt(s) ==
    /\ s # <<>>
    /\ \A k \in 1..Len(s) : s[k] \in Digits
    /\ (Len(s) > 1 => s[1] # "0")

JsonVal(kind, num, str) == [kind |-> kind, num |-> num, str |-> str]

JsonLoads(s) ==
    CASE s = <<"t", "r", "u", "e">> ->
            [ok |-> TRUE, value |-> JsonVal("true", 0, <<>>)]
      [] s = <<"f", "a", "l", "s", "e">> ->
            [ok |-> TRUE, value |-> JsonVal("false", 0, <<>>)]
      [] s = <<"n", "u", "l", "l">> ->
            [ok |-> TRUE, value |-> JsonVal("null", 0, <<>>)]
      [] IsJsonInt(s) ->
            [ok |-> TRUE, value |-> JsonVal("int", DecimalVal(s), <<>>)]
      [] /\ Len(s) >= 2 /\ s[1] = "\"" /\ s[Len(s)] = "\""
         /\ \A k \in 2..(Len(s) - 1) : s[k] \notin {"\"", "\\", "\n", "\t"} ->
            [ok |-> TRUE,
             value |-> JsonVal("str", 0, SubSeq(s, 2, Len(s) - 1))]
      [] OTHER ->
            [ok |-> FALSE, value |-> JsonVal("error", 0, s)]

(***************************************************************************)
(* parse_inputfile: one iteration of `for line in file`                    *)
(***************************************************************************)
GLOBAL == <<"_", "_", "g", "l", "o", "b", "a", "l", "_", "_">>

\* a plain url (a str) and util.ExtendedUrl(value, gconfig, lconfig)
PlainUrl(value) ==
    [ext |-> FALSE, value |-> value, gconfig |-> <<>>, lconfig |-> <<>>]

ExtendedUrl(value, gconf, lconf) ==
    [ext |-> TRUE, value |-> value, gconfig |-> gconf, lconfig |-> lconf]

\* the generator's locals after construction
GenInit == [gconf |-> <<>>, lconf |-> <<>>]

\* lines 72-93 with the text itself taken as the value when it is not JSON
ParseConfigSpec_rawOnBadJson(line) ==
    LET isG  == Len(line) >= 2 /\ line[2] = "G"
        rest == IF isG THEN Drop(line, 2) ELSE Drop(line, 1)
        kv   == Partition(rest, "=")
        js   == JsonLoads(Strip(kv[3]))
        sk   == RPartition(Strip(kv[1]), ":")
    IN  IF kv[2] = <<>>
        THEN [ok |-> FALSE, global |-> isG, opt |-> <<>>,
              warn |-> <<"invalid <key>=<value> pair", rest>>]
        ELSE [ok |-> TRUE, global |-> isG,
              opt |-> <<IF sk[2] # <<>> THEN sk[1] ELSE GLOBAL, sk[3],
                        IF js.ok THEN js.value
                        ELSE JsonVal("str", 0, Strip(kv[3]))>>,
              warn |-> <<>>]

\* lines 72-93 with the key split at its first ":" (partition for rpartition)
ParseConfigSpec_firstColon(line) ==
    LET isG  == Len(line) >= 2 /\ line[2] = "G"
        rest == IF isG THEN Drop(line, 2) ELSE Drop(line, 1)
        kv   == Partition(rest, "=")
        js   == JsonLoads(Strip(kv[3]))
        sk   == Partition(Strip(kv[1]), ":")
    IN  IF kv[2] = <<>>
        THEN [ok |-> FALSE, global |-> isG, opt |-> <<>>,
              warn |-> <<"invalid <key>=<value> pair", rest>>]
        ELSE IF ~js.ok
        THEN [ok |-> FALSE, global |-> isG, opt |-> <<>>,
              warn |-> <<"unable to parse", kv[3]>>]
        ELSE [ok |-> TRUE, global |-> isG,
              opt |-> <<IF sk[2] # <<>> THEN sk[1] ELSE GLOBAL,
                        IF sk[2] # <<>> THEN sk[3] ELSE sk[1], js.value>>,
              warn |-> <<>>]

\* lines 72-93: a line starting with "-"; result [ok, global, opt, warn]
ParseConfigSpec(line) ==
    LET isG  == Len(line) >= 2 /\ line[2] = "G"
        rest == IF isG THEN Drop(line, 2) ELSE Drop(line, 1)
        kv   == Partition(rest, "=")
        js   == JsonLoads(Strip(kv[3]))
        sk   == RPartition(Strip(kv[1]), ":")
    IN  IF kv[2] = <<>>
        THEN [ok |-> FALSE, global |-> isG, opt |-> <<>>,
              warn |-> <<"invalid <key>=<value> pair", rest>>]
        ELSE IF ~js.ok
        THEN [ok |-> FALSE, global |-> isG, opt |-> <<>>,
              warn |-> <<"unable to parse", kv[3]>>]
        ELSE [ok |-> TRUE, global |-> isG,
              opt |-> <<IF sk[2] # <<>> THEN sk[1] ELSE GLOBAL, sk[3], js.value>>,
              warn |-> <<>>]

\* the loop body with `if lconf:` at line 97
ParseLine_localOnly(g, rawline) ==
    LET line == Strip(rawline)
    IN  IF line = <<>> \/ line[1] = "#"
        THEN [gen |-> g, out |-> <<>>, warn |-> <<>>]
        ELSE IF line[1] = "-"
        THEN LET c == ParseConfigSpec(line)
             IN  IF ~c.ok
                 THEN [gen |-> g, out |-> <<>>, warn |-> <<c.warn>>]
                 ELSE IF c.global
                 THEN [gen |-> [g EXCEPT !.gconf = Append(@, c.opt)],
                       out |-> <<>>, warn |-> <<>>]
                 ELSE [gen |-> [g EXCEPT !.lconf = Append(@, c.opt)],
                       out |-> <<>>, warn |-> <<>>]
        ELSE IF g.lconf # <<>>
        THEN [gen |-> GenInit,
              out |-> <<ExtendedUrl(line, g.gconf, g.lconf)>>,
              warn |-> <<>>]
        ELSE [gen |-> g, out |-> <<PlainUrl(line)>>, warn |-> <<>>]

\* the loop body without lines 99-100
ParseLine_noReset(g, rawline) ==
    LET line == Strip(rawline)
    IN  IF line = <<>> \/ line[1] = "#"
        THEN [gen |-> g, out |-> <<>>, warn |-> <<>>]
        ELSE IF line[1] = "-"
        THEN LET c == ParseConfigSpec(line)
             IN  IF ~c.ok
                 THEN [gen |-> g, out |-> <<>>, warn |-> <<c.warn>>]
                 ELSE IF c.global
                 THEN [gen |-> [g EXCEPT !.gconf = Append(@, c.opt)],
                       out |-> <<>>, warn |-> <<>>]
                 ELSE [gen |-> [g EXCEPT !.lconf = Append(@, c.opt)],
                       out |-> <<>>, warn |-> <<>>]
        ELSE IF g.gconf # <<>> \/ g.lconf # <<>>
        THEN [gen |-> g,
              out |-> <<ExtendedUrl(line, g.gconf, g.lconf)>>,
              warn |-> <<>>]
        ELSE [gen |-> g, out |-> <<PlainUrl(line)>>, warn |-> <<>>]

\* lines 65-102: the loop body for one line of the file.
\* Result: the generator's locals, the items yielded (none or one) and the
\* warnings logged.
ParseLine(g, rawline) ==
    LET line == Strip(rawline)
    IN  IF line = <<>> \/ line[1] = "#"
        THEN [gen |-> g, out |-> <<>>, warn |-> <<>>]
        ELSE IF line[1] = "-"
        THEN LET c == ParseConfigSpec(line)
             IN  IF ~c.ok
                 THEN [gen |-> g, out |-> <<>>, warn |-> <<c.warn>>]
                 ELSE IF c.global
                 THEN [gen |-> [g EXCEPT !.gconf = Append(@, c.opt)],
                       out |-> <<>>, warn |-> <<>>]
                 ELSE [gen |-> [g EXCEPT !.lconf = Append(@, c.opt)],
                       out |-> <<>>, warn |-> <<>>]
        ELSE IF g.gconf # <<>> \/ g.lconf # <<>>
        THEN [gen |-> GenInit,
              out |-> <<ExtendedUrl(line, g.gconf, g.lconf)>>,
              warn |-> <<>>]
        ELSE [gen |-> g, out |-> <<PlainUrl(line)>>, warn |-> <<>>]

(***************************************************************************)
(* The configuration store (module config, used through config.set and     *)
(* config.apply): a mapping from <<section, key>> to a value.              *)
(***************************************************************************)
Path(opt) == <<opt[1], opt[2]>>

ConfigSet(st, section, key, value) ==
    [p \in (DOMAIN st) \cup {<<section, key>>} |->
        IF p = <<section, key>> THEN value ELSE st[p]]

ConfigUnset(st, section, key) ==
    [p \in (DOMAIN st) \ {<<section, key>>} |-> st[p]]

Absent == JsonVal("absent", 0, <<>>)

ConfigGet(st, section, key, default) ==
    IF <<section, key>> \in DOMAIN st THEN st[<<section, key>>] ELSE default

\* config.apply(kvlist).__enter__: record the previous value of each path,
\* then write the new one, in list order
RECURSIVE ConfigApplyEnter(_, _, _)
ConfigApplyEnter(st, original, kvlist) ==
    IF kvlist = <<>> THEN [store |-> st, original |-> original]
    ELSE LET o == Head(kvlist)
         IN  ConfigApplyEnter(
                 ConfigSet(st, o[1], o[2], o[3]),
                 Append(original, <<o[1], o[2], ConfigGet(st, o[1], o[2], Absent)>>),
                 Tail(kvlist))

\* an __exit__ that undoes the recorded writes first one first
RECURSIVE ConfigApplyExit_forward(_, _)
ConfigApplyExit_forward(st, original) ==
    IF original = <<>> THEN st
    ELSE LET o == Head(original)
         IN  ConfigApplyExit_forward(
                 IF o[3] = Absent THEN ConfigUnset(st, o[1], o[2])
                 ELSE ConfigSet(st, o[1], o[2], o[3]),
                 Tail(original))

\* config.apply(kvlist).__exit__: undo the recorded writes, last one first
RECURSIVE ConfigApplyExit(_, _)
ConfigApplyExit(st, original) ==
    IF original = <<>> THEN st
    ELSE LET o == original[Len(original)]
             rest == SubSeq(original, 1, Len(original) - 1)
         IN  ConfigApplyExit(
                 IF o[3] = Absent THEN ConfigUnset(st, o[1], o[2])
                 ELSE ConfigSet(st, o[1], o[2], o[3]),
                 rest)
\* a run of config.set(*opts) over a list of options, in list order
\* (lines 144-145 for the command line, lines 296-297 for url.gconfig)
RECURSIVE SetAll(_, _)
SetAll(st, opts) ==
    IF opts = <<>> THEN st
    ELSE LET o == Head(opts)
         IN  SetAll(ConfigSet(st, o[1], o[2], o[3]), Tail(opts))

(***************************************************************************)
(* Exit status arithmetic                                                  *)
(***************************************************************************)
RECURSIVE BitOr(_, _)
BitOr(a, b) ==
    IF a = 0 THEN b
    ELSE IF b = 0 THEN a
    ELSE (IF a % 2 = 1 \/ b % 2 = 1 THEN 1 ELSE 0)
         + 2 * BitOr(a \div 2, b \div 2)

\* the bit main() adds for exception.NoExtractorError
NoExtractorBit == 64
\* the value main() returns after a caught BrokenPipeError / EPIPE, and the
\* status of a process ended by sys.exit(<str>) or an uncaught exception
FatalStatus == 1

(***************************************************************************)
(* Inputs                                                                  *)
(***************************************************************************)
SeqsUpTo(S, n) == UNION {[1..k -> S] : k \in 0..n}

\* lines of input files
LineUrl1     == <<"u", "1">>
LineUrl2     == <<" ", "u", "2", " ", "\n">>
LineLocalA1  == <<"-", "a", "=", "1">>
LineLocalA2  == <<"-", "a", "=", "2">>
LineLocalPB  == <<"-", "p", ":", "b", "=", "t", "r", "u", "e">>
LineGlobalA3 == <<"-", "G", "a", "=", "3">>
LineGlobalA4 == <<"-", "G", " ", "a", " ", "=", " ", "4", "\n">>
LineBlank    == <<" ", "\n">>
LineComment  == <<"#", "-", "a", "=", "1">>
LineNoSep    == <<"-", "b", "a", "d">>
LineBadJson  == <<"-", "x", "=", " ", "n", "j">>
LineDeepKey  == <<"-", "a", ":", "b", ":", "c", "=", "\"", "s", "\"">>
LineDash     == <<"-">>
LinePlugin   == <<"-", "p", "l", "u", "g", "i", "n", ":", "o", "p", "t", "=", "1">>

BatchLines == {LineUrl1, LineLocalA1, LineLocalA2, LineLocalPB,
               LineGlobalA3, LineGlobalA4}

ParseLines == BatchLines \cup {LineUrl2, LineBlank, LineComment, LineNoSep,
                               LineBadJson, LineDeepKey, LineDash, LinePlugin}

\* an input file: its lines, and whether open() or a later read fails
\* with OSError (a read error comes after the lines that could be read)
File(err, lines) == [err |-> err, lines |-> lines]

BatchFiles ==
    {File("open", <<>>)}
    \cup {File(e, l) : e \in {"none", "read"}, l \in SeqsUpTo(BatchLines, MaxLines)}

\* args.urls: targets given on the command line
DirectUrl == <<"u", "0">>

\* args.options: -o options of the command line, written with config.set
OptA == <<GLOBAL, <<"a">>, JsonVal("false", 0, <<>>)>>

\* what a job does: run() returns a status, or raises
StatusSet == {0, 1, 64}
FatalKinds == {"KeyboardInterrupt", "BrokenPipeError", "OSError_EPIPE",
               "OSError", "Exception"}
Outcome(kind, status) == [kind |-> kind, status |-> status]
Outcomes ==
    {Outcome("return", n) : n \in StatusSet}
    \cup {Outcome(k, 0) : k \in {"TerminateExtraction", "NoExtractorError"}}
    \cup {Outcome(k, 0) : k \in FatalKinds}
NoOutcome == Outcome("none", 0)
NoUrl == [ext |-> FALSE, value |-> <<>>, gconfig |-> <<>>, lconfig |-> <<>>]

(***************************************************************************)
(* State                                                                   *)
(***************************************************************************)
VARIABLES
    args_urls,    \* args.urls as given on the command line
    options,      \* args.options: the options of the command line
    inputfiles,   \* args.inputfiles: the input files, as File records
    pformat,      \* config.get("output", "progress", True) is truthy
    pc,           \* position in main()
    fi,           \* number of input files the loop of line 264 has taken
    lineno,       \* lines of the current input file the generator has read
    gen,          \* gconf and lconf of the running parse_inputfile generator
    urls,         \* the list urls (args.urls, extended by the input files)
    wrapped,      \* urls was replaced by progress(urls, pformat)
    it,           \* items the loop of line 292 has taken from urls
    url,          \* the loop variable url
    store,        \* the configuration store
    original,     \* config.apply's record of the values it replaced
    outcome,      \* how the current job ended
    retval,       \* the aggregate
    exit,         \* how main() ended: [via, status]
    log,          \* warnings and errors logged
    stderr,       \* progress lines written
    pre,          \* history: the store when the current overlay was applied
    jobs,         \* history: the jobs constructed, with the store they saw
    results,      \* history: the set of outcomes the jobs have had so far
    start         \* history: store and retval when the current item was taken

vars == <<args_urls, options, inputfiles, pformat, pc, fi, lineno, gen, urls, wrapped, it, url,
          store, original, outcome, retval, exit, log, stderr, pre, jobs,
          results, start>>

NoExit == [via |-> "running", status |-> 0]

InitCommon ==
    /\ pc = "inputs"
    /\ fi = 0
    /\ lineno = 0
    /\ gen = GenInit
    /\ wrapped = FALSE
    /\ it = 0
    /\ url = NoUrl
    /\ original = <<>>
    /\ outcome = NoOutcome
    /\ retval = 0
    /\ exit = NoExit
    /\ log = <<>>
    /\ stderr = <<>>
    /\ pre = <<>>
    /\ jobs = <<>>
    /\ results = {}
    /\ start = [store |-> <<>>, retval |-> 0]

\* main() at line 262, after the command line was read (lines 110-145)
Init ==
    /\ \E direct \in {<<>>, <<PlainUrl(DirectUrl)>>} :
       \E files \in {<<>>} \cup {<<f>> : f \in BatchFiles} :
           /\ direct # <<>> \/ files # <<>>       \* line 248: parser.error
           /\ args_urls = direct
           /\ urls = direct                        \* line 262
           /\ inputfiles = files
    /\ options \in {<<>>, <<OptA>>}
    /\ store = SetAll(<<>>, options)                \* lines 144-145
    /\ pformat = TRUE                            \* line 287, the default
    /\ InitCommon
(***************************************************************************)
(* main(), lines 262-276: collecting the targets of the input files        *)
(***************************************************************************)
CurFile == inputfiles[fi]

Warning(msg, arg) == <<"warning", msg, arg>>

RECURSIVE Warnings(_)
Warnings(ws) ==
    IF ws = <<>> THEN <<>>
    ELSE <<Warning(Head(ws)[1], Head(ws)[2])>> \o Warnings(Tail(ws))

\* a generator that yields what is still pending at the end of the file
ParseEnd_flush(g) ==
    IF g.gconf # <<>> \/ g.lconf # <<>>
    THEN <<ExtendedUrl(<<>>, g.gconf, g.lconf)>>
    ELSE <<>>

\* what the generator yields once the file is exhausted (the for loop of
\* line 65 ends and the function returns): nothing
ParseEnd(g) == <<>>

\* lists that outlive the call and are shared by every parse
NewGenerator_shared(g) == g

\* lines 62-63: every call of parse_inputfile starts with lists of its own
NewGenerator(g) == GenInit

\* lines 264-274: open() succeeded, parse_inputfile(file, log) is called
OpenInput ==
    /\ pc = "inputs"
    /\ fi < Len(inputfiles)
    /\ inputfiles[fi + 1].err # "open"
    /\ fi' = fi + 1
    /\ lineno' = 0
    /\ gen' = NewGenerator(gen)
    /\ pc' = "parse"
    /\ UNCHANGED <<args_urls, options, inputfiles, pformat, urls, wrapped, it, url, store,
                   original, outcome, retval, exit, log, stderr, pre, jobs, results, start>>

\* lines 273-276: open() raised OSError
OpenError ==
    /\ pc = "inputs"
    /\ fi < Len(inputfiles)
    /\ inputfiles[fi + 1].err = "open"
    /\ fi' = fi + 1
    /\ log' = Append(log, Warning("input file", <<>>))
    /\ UNCHANGED <<args_urls, options, inputfiles, pformat, pc, lineno, gen, urls, wrapped, it,
                   url, store, original, outcome, retval, exit, stderr, pre,
                   jobs, results, start>>

\* `urls += parse_inputfile(...)` takes the next item of the generator: the
\* generator reads one more line (lines 65-102); list.__iadd__ appends what
\* it yields
ReadLine ==
    /\ pc = "parse"
    /\ lineno < Len(CurFile.lines)
    /\ LET r == ParseLine(gen, CurFile.lines[lineno + 1])
       IN  /\ gen' = r.gen
           /\ urls' = urls \o r.out
           /\ log' = log \o Warnings(r.warn)
    /\ lineno' = lineno + 1
    /\ UNCHANGED <<args_urls, options, inputfiles, pformat, pc, fi, wrapped, it, url, store,
                   original, outcome, retval, exit, stderr, pre, jobs, results, start>>

\* the file is exhausted: the generator returns
EndOfFile ==
    /\ pc = "parse"
    /\ lineno = Len(CurFile.lines)
    /\ CurFile.err = "none"
    /\ urls' = urls \o ParseEnd(gen)
    /\ pc' = "inputs"
    /\ UNCHANGED <<args_urls, options, inputfiles, pformat, fi, lineno, gen, wrapped, it, url,
                   store, original, outcome, retval, exit, log, stderr, pre,
                   jobs, results, start>>

\* lines 275-276: reading the file raised OSError inside the generator; the
\* items list.__iadd__ appended before stay in urls
ReadError ==
    /\ pc = "parse"
    /\ lineno = Len(CurFile.lines)
    /\ CurFile.err = "read"
    /\ log' = Append(log, Warning("input file", <<>>))
    /\ pc' = "inputs"
    /\ UNCHANGED <<args_urls, options, inputfiles, pformat, fi, lineno, gen, urls, wrapped, it,
                   url, store, original, outcome, retval, exit, stderr, pre,
                   jobs, results, start>>

(***************************************************************************)
(* main(), lines 287-307: the dispatch loop                                *)
(***************************************************************************)
\* lines 287-291
StartLoop ==
    /\ pc = "inputs"
    /\ fi = Len(inputfiles)
    /\ wrapped' = (pformat /\ Len(urls) > 1)
    /\ retval' = 0
    /\ pc' = "loop"
    /\ UNCHANGED <<args_urls, options, inputfiles, pformat, fi, lineno, gen, urls, it, url,
                   store, original, outcome, exit, log, stderr, pre, jobs, results, start>>

\* lines 22-32: the line progress() writes before it yields item n
\* the progress line counting from 0 (enumerate without its start argument)
ProgressLine_zeroBased(n, total, u) ==
    [current |-> n - 1, total |-> total, url |-> u.value]

ProgressLine(n, total, u) == [current |-> n, total |-> total, url |-> u.value]

\* line 292 takes the next item (through progress() when wrapped),
\* line 295 tests its type
NextUrl ==
    /\ pc = "loop"
    /\ it < Len(urls)
    /\ it' = it + 1
    /\ url' = urls[it + 1]
    /\ start' = [store |-> store, retval |-> retval]
    /\ stderr' = IF wrapped
                 THEN Append(stderr, ProgressLine(it + 1, Len(urls), urls[it + 1]))
                 ELSE stderr
    /\ pc' = IF urls[it + 1].ext THEN "gconfig" ELSE "job"
    /\ UNCHANGED <<args_urls, options, inputfiles, pformat, fi, lineno, gen, urls, wrapped,
                   store, original, outcome, retval, exit, log, pre, jobs, results>>

RECURSIVE Reverse(_)
Reverse(q) == IF q = <<>> THEN <<>> ELSE Append(Reverse(Tail(q)), Head(q))

\* the global options written last one first
GlobalsStore_reversed(st, u) == SetAll(st, Reverse(u.gconfig))

\* lines 296-297 skipping the options whose path a local option names
GlobalsStore_skipShadowed(st, u) ==
    SetAll(st, SelectSeq(u.gconfig,
                         LAMBDA g : \A k \in 1..Len(u.lconfig) :
                                        <<g[1], g[2]>> # <<u.lconfig[k][1], u.lconfig[k][2]>>))

\* lines 296-297: for opts in url.gconfig: config.set(*opts)
GlobalsStore(st, u) == SetAll(st, u.gconfig)

SetGlobals ==
    /\ pc = "gconfig"
    /\ store' = GlobalsStore(store, url)
    /\ pc' = "enter"
    /\ UNCHANGED <<args_urls, options, inputfiles, pformat, fi, lineno, gen, urls, wrapped, it,
                   url, original, outcome, retval, exit, log, stderr, pre,
                   jobs, results, start>>

\* line 298: with config.apply(url.lconfig), entering the block
ApplyEnter ==
    /\ pc = "enter"
    /\ LET r == ConfigApplyEnter(store, <<>>, url.lconfig)
       IN  /\ store' = r.store
           /\ original' = r.original
    /\ pre' = store
    /\ pc' = "job"
    /\ UNCHANGED <<args_urls, options, inputfiles, pformat, fi, lineno, gen, urls, wrapped, it,
                   url, outcome, retval, exit, log, stderr, jobs, results, start>>

\* line 299 handing the ExtendedUrl itself to the job
JobValue_item(u) == IF u.ext THEN <<"ExtendedUrl">> \o u.value ELSE u.value

\* what the job is constructed from: url.value (line 299) or url (line 301)
JobValue(u) == u.value

\* lines 299 and 301: jobtype(value).run() returns a status or raises
RunJob ==
    /\ pc = "job"
    /\ \E o \in Outcomes :
           /\ outcome' = o
           /\ results' = results \cup {o}
    /\ jobs' = Append(jobs, [value |-> JobValue(url), store |-> store])
    /\ pc' = IF url.ext THEN "exit" ELSE "except"
    /\ UNCHANGED <<args_urls, options, inputfiles, pformat, fi, lineno, gen, urls, wrapped, it,
                   url, store, original, retval, exit, log, stderr, pre, start>>

\* a try statement whose clauses take every exception
Handler_catchAll(kind) ==
    CASE kind = "return" -> "fold"
      [] kind = "NoExtractorError" -> "error"
      [] OTHER -> "pass"

\* lines 293-306: which clause of the try statement takes an outcome
Handler(kind) ==
    CASE kind = "return" -> "fold"
      [] kind = "TerminateExtraction" -> "pass"
      [] kind = "NoExtractorError" -> "error"
      [] OTHER -> "propagate"

\* variants of the with statement that release the overlay only on some exits
WithExitStore_returnOnly(st, orig, o) ==
    IF o.kind = "return" THEN ConfigApplyExit(st, orig) ELSE st

WithExitStore_caughtOnly(st, orig, o) ==
    IF Handler(o.kind) = "propagate" THEN st ELSE ConfigApplyExit(st, orig)

\* a with statement whose overlay is never released
WithExitStore_leak(st, orig, o) == st

\* a release that also takes back the global options when the job raised
WithExitStore_rollback(st, orig, o) ==
    IF o.kind = "return" THEN ConfigApplyExit(st, orig) ELSE start.store

\* lines 298-299: the with statement calls __exit__ however the block ends
WithExitStore(st, orig, o) == ConfigApplyExit(st, orig)

WithExit ==
    /\ pc = "exit"
    /\ store' = WithExitStore(store, original, outcome)
    /\ original' = <<>>
    /\ pc' = "except"
    /\ UNCHANGED <<args_urls, options, inputfiles, pformat, fi, lineno, gen, urls, wrapped, it,
                   url, outcome, retval, exit, log, stderr, pre, jobs, results, start>>

\* retval += <status>
Fold_add(r, status) == r + status

\* lines 299 and 301: retval |= <status>
Fold(r, status) == BitOr(r, status)

\* line 306: retval |= 64
NoExtractorFold(r) == BitOr(r, NoExtractorBit)

\* a caught exception ends the loop without a return
AfterCatch_stop == "done"

\* where control goes after a caught exception (lines 303 and 306): on to
\* the next item of the for loop
AfterCatch == "loop"

FoldStatus ==
    /\ pc = "except"
    /\ Handler(outcome.kind) = "fold"
    /\ retval' = Fold(retval, outcome.status)
    /\ outcome' = NoOutcome
    /\ pc' = "loop"
    /\ UNCHANGED <<args_urls, options, inputfiles, pformat, fi, lineno, gen, urls, wrapped, it,
                   url, store, original, exit, log, stderr, pre, jobs, results, start>>

\* lines 302-303
CatchTerminate ==
    /\ pc = "except"
    /\ Handler(outcome.kind) = "pass"
    /\ outcome' = NoOutcome
    /\ pc' = AfterCatch
    /\ UNCHANGED <<args_urls, options, inputfiles, pformat, fi, lineno, gen, urls, wrapped, it,
                   url, store, original, retval, exit, log, stderr, pre, jobs, results, start>>

\* lines 304-306
CatchNoExtractor ==
    /\ pc = "except"
    /\ Handler(outcome.kind) = "error"
    /\ log' = Append(log, <<"error", "No suitable extractor found for", url.value>>)
    /\ retval' = NoExtractorFold(retval)
    /\ outcome' = NoOutcome
    /\ pc' = AfterCatch
    /\ UNCHANGED <<args_urls, options, inputfiles, pformat, fi, lineno, gen, urls, wrapped, it,
                   url, store, original, exit, stderr, pre, jobs, results, start>>

\* no clause of the inner try matches: the exception leaves the for loop
Propagate ==
    /\ pc = "except"
    /\ Handler(outcome.kind) = "propagate"
    /\ pc' = "toplevel"
    /\ UNCHANGED <<args_urls, options, inputfiles, pformat, fi, lineno, gen, urls, wrapped, it,
                   url, store, original, outcome, retval, exit, log, stderr,
                   pre, jobs, results, start>>

\* line 307
Return ==
    /\ pc = "loop"
    /\ it = Len(urls)
    /\ exit' = [via |-> "return retval", status |-> retval]
    /\ pc' = "done"
    /\ UNCHANGED <<args_urls, options, inputfiles, pformat, fi, lineno, gen, urls, wrapped, it,
                   url, store, original, outcome, retval, log, stderr, pre,
                   jobs, results, start>>

(***************************************************************************)
(* main(), lines 309-317: the handlers of the outer try                    *)
(***************************************************************************)
\* handlers that hand back the aggregate
TopLevelExit_aggregate(kind) ==
    IF kind = "KeyboardInterrupt"
    THEN [via |-> "sys.exit", status |-> retval]
    ELSE [via |-> "return 1", status |-> retval]

\* how main() ends on an exception that left the loop
TopLevelExit(kind) ==
    CASE kind = "KeyboardInterrupt" ->
            [via |-> "sys.exit", status |-> FatalStatus]       \* line 310
      [] kind = "BrokenPipeError" ->
            [via |-> "return 1", status |-> FatalStatus]       \* 311-312, 317
      [] kind = "OSError_EPIPE" ->
            [via |-> "return 1", status |-> FatalStatus]       \* 313-315, 317
      [] OTHER ->
            [via |-> "uncaught", status |-> FatalStatus]       \* line 316

TopLevel ==
    /\ pc = "toplevel"
    /\ exit' = TopLevelExit(outcome.kind)
    /\ pc' = "done"
    /\ UNCHANGED <<args_urls, options, inputfiles, pformat, fi, lineno, gen, urls, wrapped, it,
                   url, store, original, outcome, retval, log, stderr, pre,
                   jobs, results, start>>

Next ==
    \/ OpenInput \/ OpenError \/ ReadLine \/ EndOfFile \/ ReadError
    \/ StartLoop \/ NextUrl \/ SetGlobals \/ ApplyEnter \/ RunJob \/ WithExit
    \/ FoldStatus \/ CatchTerminate \/ CatchNoExtractor \/ Propagate
    \/ Return \/ TopLevel

Spec == Init /\ [][Next]_vars

(***************************************************************************)
(* The parser alone: one input file, no targets on the command line, and   *)
(* the steps of `urls += parse_inputfile(file, log)`.                      *)
(***************************************************************************)
InitParse ==
    /\ args_urls = <<>>
    /\ urls = args_urls
    /\ \E l \in SeqsUpTo(ParseLines, MaxParseLines) :
           inputfiles = <<File("none", l)>>
    /\ options = <<>>
    /\ store = SetAll(<<>>, options)
    /\ pformat = TRUE
    /\ InitCommon

NextParse == OpenInput \/ ReadLine \/ EndOfFile

SpecParse == InitParse /\ [][NextParse]_vars
(***************************************************************************)
(* Properties                                                              *)
(***************************************************************************)
LocalPaths(u) == {Path(u.lconfig[k]) : k \in 1..Len(u.lconfig)}
GlobalPaths(u) == {Path(u.gconfig[k]) : k \in 1..Len(u.gconfig)}

\* path p reads the same in stores a and b: the same value, or absent in both
SamePath(a, b, p) ==
    /\ (p \in DOMAIN a) <=> (p \in DOMAIN b)
    /\ (p \in DOMAIN a) => a[p] = b[p]

IsFatal(o) == o.kind \in FatalKinds

\* C1: once the overlay of an ExtendedUrl is released -- its job returned a
\* status, raised TerminateExtraction or raised NoExtractorError -- every
\* path its local options name reads as it did right before the overlay was
\* applied, absent paths being absent again; a plain url that follows sees
\* those values.
C1_OverlayRestored ==
    /\ (url.ext /\ pc \in {"except", "loop", "done"} /\ ~IsFatal(outcome))
          => \A p \in LocalPaths(url) : SamePath(store, pre, p)
    /\ (pc = "job" /\ ~url.ext /\ it >= 2 /\ urls[it - 1].ext)
          => \A p \in LocalPaths(urls[it - 1]) : SamePath(store, pre, p)

C1_Witness ==
    /\ pc = "except" /\ url.ext /\ outcome.kind = "NoExtractorError"
    /\ \E p \in LocalPaths(url) :
          /\ p \notin DOMAIN pre
          /\ p \in DOMAIN jobs[it].store
          /\ p \notin DOMAIN store
    /\ \E p \in LocalPaths(url) :
          /\ p \in DOMAIN pre
          /\ jobs[it].store[p] # pre[p]
          /\ store[p] = pre[p]

\* C2: when the job of an ExtendedUrl raises a fatal error, the overlay is
\* released before the error leaves the loop: from the moment the with block
\* is left, the store equals the store right before the overlay was applied.
C2_ReleasedOnFatal ==
    (url.ext /\ IsFatal(outcome) /\ pc \in {"except", "toplevel", "done"})
        => store = pre

C2_Witness ==
    /\ pc = "toplevel" /\ url.ext /\ IsFatal(outcome)
    /\ jobs[it].store # pre
    /\ store = pre
\* the global options of urls[1..k], in the order the loop writes them
RECURSIVE AllGlobals(_)
AllGlobals(k) == IF k = 0 THEN <<>> ELSE AllGlobals(k - 1) \o urls[k].gconfig

OptPaths(opts) == {Path(opts[k]) : k \in 1..Len(opts)}

\* the value of the last option of opts that names path p
LastValue(opts, p) ==
    LET k == CHOOSE k \in 1..Len(opts) :
                 /\ Path(opts[k]) = p
                 /\ \A j \in (k + 1)..Len(opts) : Path(opts[j]) # p
    IN  opts[k][3]

\* st shows, at every path in paths, the last global write of urls[1..k]
GlobalsVisible(st, k, paths) ==
    \A p \in paths :
        p \in OptPaths(AllGlobals(k))
            => p \in DOMAIN st /\ st[p] = LastValue(AllGlobals(k), p)

AllPaths == UNION {GlobalPaths(urls[k]) : k \in 1..Len(urls)}

\* C3 as amended: the global options of an ExtendedUrl are written in list
\* order before its job is constructed and stay: the store outside an
\* overlay shows at each path the last global write made so far, and so
\* does the job of every target at each path its own local options do not
\* name.
C3_GlobalsPersist ==
    /\ \A k \in 1..Len(jobs) :
          GlobalsVisible(jobs[k].store, k, AllPaths \ LocalPaths(urls[k]))
    /\ pc \in {"loop", "enter", "except", "toplevel", "done"}
          => GlobalsVisible(store, it, AllPaths)
    /\ pc = "gconfig" => GlobalsVisible(store, it - 1, AllPaths)
    /\ pc \in {"job", "exit"}
          => GlobalsVisible(store, it, AllPaths \ LocalPaths(url))

\* C3 as claimed: the job of every target sees, at every path, the last
\* global write made so far.
C3_AlwaysVisible ==
    \A k \in 1..Len(jobs) : GlobalsVisible(jobs[k].store, k, AllPaths)

C3_Witness ==
    /\ pc = "done" /\ exit.via = "return retval"
    /\ \E k \in 1..Len(urls) :
          /\ Len(urls[k].gconfig) = 2
          /\ Path(urls[k].gconfig[1]) = Path(urls[k].gconfig[2])
          /\ urls[k].gconfig[1][3] # urls[k].gconfig[2][3]
          /\ jobs[k].store[Path(urls[k].gconfig[2])] = urls[k].gconfig[2][3]
          /\ store[Path(urls[k].gconfig[2])] = urls[k].gconfig[2][3]
          /\ options # <<>>

\* the bits of a status
RECURSIVE Pow2(_)
Pow2(k) == IF k = 0 THEN 1 ELSE 2 * Pow2(k - 1)

Bits(n) == {k \in 0..7 : (n \div Pow2(k)) % 2 = 1}

ReturnedStatuses == {o.status : o \in {r \in results : r.kind = "return"}}

\* C4: a batch that ends without a fatal error returns the bitwise OR of the
\* statuses the jobs returned and of 64 if a job raised NoExtractorError;
\* TerminateExtraction adds no bit.
C4_Aggregate ==
    (pc = "done" /\ exit.via = "return retval")
        => Bits(exit.status) =
              UNION ({Bits(n) : n \in ReturnedStatuses}
                     \cup {IF Outcome("NoExtractorError", 0) \in results
                           THEN Bits(NoExtractorBit) ELSE {}})

C4_Witness ==
    /\ pc = "done" /\ exit.via = "return retval"
    /\ Len(jobs) = 3
    /\ results = {Outcome("return", 1), Outcome("NoExtractorError", 0),
                  Outcome("TerminateExtraction", 0)}
    /\ exit.status = 65

Values(q) == [k \in 1..Len(q) |-> q[k].value]

\* C5: NoExtractorError and TerminateExtraction do not stop the batch: the
\* jobs constructed are those of the items taken so far, one each and in
\* order; without a fatal error the run ends only by returning the
\* aggregate, after a job for every item; and the run never stops before.
C5_BatchContinues ==
    /\ Values(jobs) =
          Values(SubSeq(urls, 1,
                        IF pc \in {"gconfig", "enter", "job"} THEN it - 1 ELSE it))
    /\ (pc = "done" /\ ~IsFatal(outcome))
          => /\ Len(jobs) = Len(urls)
             /\ exit = [via |-> "return retval", status |-> retval]
    /\ (pc = "except" /\ outcome.kind \in {"NoExtractorError", "TerminateExtraction"})
          => ENABLED (CatchTerminate \/ CatchNoExtractor)
    /\ pc = "loop" => ENABLED (NextUrl \/ Return)
    /\ pc \in {"gconfig", "enter", "job", "exit"}
          => ENABLED (SetGlobals \/ ApplyEnter \/ RunJob \/ WithExit)

C5_Witness ==
    /\ pc = "done" /\ exit.via = "return retval"
    /\ Len(jobs) = 3
    /\ results = {Outcome("NoExtractorError", 0), Outcome("TerminateExtraction", 0)}

\* C6: a fatal error of a job is not caught by the loop: it stays the
\* pending exception, no further item is taken and no further job is
\* constructed, and main() does not end by returning the aggregate.
C6_FatalNotCaught ==
    (\E o \in results : IsFatal(o))
        => /\ IsFatal(outcome)
           /\ pc \in {"exit", "except", "toplevel", "done"}
           /\ Len(jobs) = it
           /\ exit.via # "return retval"
           /\ pc = "done" => exit.via \in {"sys.exit", "return 1", "uncaught"}

C6_Witness ==
    /\ pc = "done" /\ outcome.kind = "Exception"
    /\ it < Len(urls)
    /\ retval = 64
    /\ exit = [via |-> "uncaught", status |-> 1]

\* the exceptions the handlers of lines 309-315 take
TopLevelCaught == {"KeyboardInterrupt", "BrokenPipeError", "OSError_EPIPE"}

RECURSIVE OrSet(_)
OrSet(S) ==
    IF S = {} THEN 0
    ELSE LET n == CHOOSE n \in S : TRUE IN BitOr(n, OrSet(S \ {n}))

\* the aggregates a completed batch can return
BatchStatuses == {OrSet(S) : S \in SUBSET (StatusSet \cup {NoExtractorBit})}

\* C7 as claimed: a run ended by an interrupt or a broken-output condition
\* exits with a status no completed batch can return.
C7_DistinctStatus ==
    (pc = "done" /\ outcome.kind \in TopLevelCaught)
        => exit.status \notin BatchStatuses

\* C7 as amended: a run ended by an interrupt or a broken-output condition
\* exits with status 1 whatever the aggregate was, through sys.exit or
\* `return 1`; a completed batch returns a status of BatchStatuses, and 1 is
\* one of them.
C7_FatalStatus ==
    /\ (pc = "done" /\ outcome.kind \in TopLevelCaught)
          => /\ exit.status = FatalStatus
             /\ exit.via \in {"sys.exit", "return 1"}
    /\ (pc = "done" /\ exit.via = "return retval")
          => exit.status \in BatchStatuses
    /\ FatalStatus \in BatchStatuses

C7_Witness ==
    /\ pc = "done" /\ outcome.kind = "KeyboardInterrupt"
    /\ retval = 64
    /\ exit = [via |-> "sys.exit", status |-> 1]
(***************************************************************************)
(* Properties of the parser, stated on the lines of the input file         *)
(***************************************************************************)
\* the lines of the input file the generator has read
Consumed == IF fi = 0 THEN <<>> ELSE SubSeq(CurFile.lines, 1, lineno)

\* a target line: not blank, and its first character after trimming is
\* neither "#" nor "-"
IsTargetLine(l) ==
    LET t == Strip(l) IN t # <<>> /\ t[1] \notin {"#", "-"}

\* a well-formed directive line: starts with "-", has an "=", and the text
\* after the first "=" is JSON
IsWellFormed(l) ==
    LET t == Strip(l)
    IN  /\ t # <<>> /\ t[1] = "-"
        /\ Find(t, "=") > 0
        /\ JsonLoads(Strip(Drop(t, Find(t, "=")))).ok

IsGlobalLine(l) ==
    LET t == Strip(l) IN Len(t) >= 2 /\ t[2] = "G"

TargetIdx(ls) == {k \in 1..Len(ls) : IsTargetLine(ls[k])}

\* the index of the n-th target line of ls
NthTarget(ls, n) ==
    CHOOSE k \in TargetIdx(ls) : Cardinality({j \in TargetIdx(ls) : j <= k}) = n

\* the index of the target line before line k, 0 when there is none
PrevTarget(ls, k) ==
    IF \E j \in TargetIdx(ls) : j < k
    THEN CHOOSE j \in TargetIdx(ls) : j < k /\ \A i \in TargetIdx(ls) : i < k => i <= j
    ELSE 0

\* the directives of the well-formed lines ls[from..to] of one scope, in order
RECURSIVE DirectivesOf(_, _, _, _)
DirectivesOf(ls, from, to, global) ==
    IF from > to THEN <<>>
    ELSE (IF IsWellFormed(ls[from]) /\ IsGlobalLine(ls[from]) = global
          THEN <<ParseConfigSpec(Strip(ls[from])).opt>>
          ELSE <<>>)
         \o DirectivesOf(ls, from + 1, to, global)

\* the items of urls that came from the input file
FromFile(n) == urls[Len(args_urls) + n]
NFromFile == Len(urls) - Len(args_urls)

\* C8: the parser emits one item per target line, in input order, with the
\* trimmed line as its value; the item is an ExtendedUrl exactly when a
\* well-formed directive line lies between the previous target line (or the
\* start of the file) and this one, and the plain string otherwise.
C8_OneItemPerTarget ==
    LET ls == Consumed
    IN  /\ NFromFile = Cardinality(TargetIdx(ls))
        /\ \A n \in 1..NFromFile :
              LET k == NthTarget(ls, n)
                  enriched == \E j \in (PrevTarget(ls, k) + 1)..(k - 1) :
                                  IsWellFormed(ls[j])
              IN  /\ FromFile(n).value = Strip(ls[k])
                  /\ FromFile(n).ext = enriched
                  /\ ~enriched => FromFile(n) = PlainUrl(Strip(ls[k]))

C8_Witness ==
    /\ pc = "inputs" /\ fi = 1
    /\ Len(urls) = 2
    /\ urls[1].ext /\ urls[1].lconfig = <<>>
    /\ ~urls[2].ext /\ urls[2].value = <<"u", "2">>

\* every item carries, per scope and in input order, the directives of the
\* well-formed lines between the previous target line and its own
Attached ==
    LET ls == Consumed
    IN  \A n \in 1..NFromFile :
            LET k == NthTarget(ls, n)
                p == PrevTarget(ls, k)
            IN  /\ FromFile(n).gconfig = DirectivesOf(ls, p + 1, k - 1, TRUE)
                /\ FromFile(n).lconfig = DirectivesOf(ls, p + 1, k - 1, FALSE)

\* C9: every well-formed directive line is attached to the ExtendedUrl of
\* the next target line, in the list of its scope and in input order, and to
\* no other item; an item already emitted is not changed by later lines.
C9_DirectivesAttached ==
    /\ []Attached
    /\ [][\A n \in 1..Len(urls) : urls'[n] = urls[n]]_vars

C9_Witness ==
    /\ pc = "inputs" /\ fi = 1
    /\ Len(urls) = 2
    /\ ~urls[1].ext
    /\ urls[2].ext /\ urls[2].gconfig = <<>> /\ Len(urls[2].lconfig) = 1
    /\ IsWellFormed(CurFile.lines[2])

\* the store after the command line was read (lines 144-145)
InitialStore == SetAll(<<>>, options)

LastTarget(ls) == PrevTarget(ls, Len(ls) + 1)

\* C10: directives after the last target line are dropped: when the file
\* has been read it has given one item per target line and none for what is
\* pending at its end, no item carrying a directive of a later line, and
\* when the batch has been dispatched the store is the initial store with
\* the global directives written that precede a target line, nothing else.
C10_TrailingDropped ==
    /\ (fi = 1 /\ pc = "inputs")
          => /\ NFromFile = Cardinality(TargetIdx(CurFile.lines))
             /\ Attached
    /\ (pc = "done" /\ exit.via = "return retval" /\ fi = 1)
          => store = SetAll(InitialStore,
                            DirectivesOf(CurFile.lines, 1,
                                         LastTarget(CurFile.lines), TRUE))

C10_Witness ==
    /\ pc = "done" /\ exit.via = "return retval" /\ fi = 1
    /\ gen.gconf # <<>>
    /\ LastTarget(CurFile.lines) = 2
    /\ IsWellFormed(CurFile.lines[3]) /\ IsGlobalLine(CurFile.lines[3])
    /\ IsWellFormed(CurFile.lines[1]) /\ IsGlobalLine(CurFile.lines[1])
    /\ store # InitialStore
    /\ store[Path(gen.gconf[1])] # gen.gconf[1][3]

\* a directive line that does not parse: it starts with "-" and either has
\* no "=" or the text after its first "=" is not JSON
IsMalformed(l) ==
    LET t == Strip(l) IN t # <<>> /\ t[1] = "-" /\ ~IsWellFormed(l)

\* the line the generator reads next
NextLine == CurFile.lines[lineno + 1]

\* C11: a directive line with no "=" or with a value that is not JSON logs
\* one warning, records no directive and leaves the pending directives as
\* they were; the parser goes on to the next line; a target line that has
\* only malformed directive lines since the previous target line (or the
\* start of the file) is emitted as the plain string.
C11_MalformedSkipped ==
    /\ [][(pc = "parse" /\ lineno < Len(CurFile.lines) /\ IsMalformed(NextLine))
            => /\ gen' = gen
               /\ urls' = urls
               /\ Len(log') = Len(log) + 1
               /\ log'[Len(log')][1] = "warning"
               /\ lineno' = lineno + 1
               /\ pc' = "parse"]_vars
    /\ []((pc = "inputs" /\ fi = 1)
              => NFromFile = Cardinality(TargetIdx(CurFile.lines)))
    /\ [](\A n \in 1..NFromFile :
              LET k == NthTarget(Consumed, n)
                  between == (PrevTarget(Consumed, k) + 1)..(k - 1)
              IN  (\A j \in between : IsMalformed(Consumed[j]))
                      => FromFile(n) = PlainUrl(Strip(Consumed[k])))

C11_Witness ==
    /\ pc = "inputs" /\ fi = 1
    /\ Len(CurFile.lines) = 3
    /\ IsMalformed(CurFile.lines[1]) /\ Find(CurFile.lines[1], "=") = 0
    /\ IsMalformed(CurFile.lines[2]) /\ Find(CurFile.lines[2], "=") > 0
    /\ urls = <<PlainUrl(Strip(CurFile.lines[3]))>>
    /\ Len(log) = 2

\* the key text of a directive line: what stands between the "-" or "-G"
\* prefix and the first "=", trimmed
RawKey(l) ==
    LET t    == Strip(l)
        body == Drop(t, IF IsGlobalLine(l) THEN 2 ELSE 1)
    IN  Strip(SubSeq(body, 1, Find(body, "=") - 1))

HasColon(s) == \E k \in 1..Len(s) : s[k] = ":"

\* section and key are the two sides of the last ":" of raw, or the section
\* is "__global__" and the key all of raw when raw has no ":"
SplitsAtLastColon(raw, section, key) ==
    IF HasColon(raw)
    THEN raw = section \o <<":">> \o key /\ ~HasColon(key)
    ELSE section = GLOBAL /\ key = raw

ProgressFaithful ==
    /\ Len(stderr) = it
    /\ \A i \in 1..it :
          stderr[i] = [current |-> i, total |-> Len(urls), url |-> urls[i].value]
    /\ it >= 1 => url = urls[it]
    /\ (pc = "done" /\ exit.via = "return retval")
          => /\ it = Len(urls)
             /\ Len(jobs) = Len(urls)
             /\ \A i \in 1..Len(urls) : jobs[i].value = urls[i].value

\* C13: the wrapped sequence gives the loop exactly the items of urls, as
\* many, in the same order and the same objects, and by the time the loop
\* has the i-th item one progress line has been written for it, with
\* current = i and total = the length urls had when it was wrapped, which
\* does not change afterwards; nothing is written when urls is not wrapped.
C13_ProgressFaithful ==
    /\ [](wrapped => ProgressFaithful)
    /\ [](~wrapped => stderr = <<>>)
    /\ [][pc \notin {"inputs", "parse"} => urls' = urls]_vars

C13_Witness ==
    /\ wrapped
    /\ pc = "done" /\ exit.via = "return retval"
    /\ Len(urls) = 3 /\ urls[1] # urls[2] /\ urls[3].ext
    /\ Len(stderr) = 3
    /\ stderr[3].current = 3 /\ stderr[1].total = 3

(***************************************************************************)
(* Properties of the overlay when a path is named more than once           *)
(***************************************************************************)
\* the paths the local options of u name more than once
DupPaths(u) ==
    {Path(u.lconfig[k]) : k \in {i \in 1..Len(u.lconfig) :
        \E j \in 1..Len(u.lconfig) : j # i /\ Path(u.lconfig[j]) = Path(u.lconfig[i])}}

\* what the path of the k-th local option of u read just before that option
\* was written: the value of the last earlier option of the same path, or
\* the reading before the overlay
PrevReading(u, k) ==
    LET p       == Path(u.lconfig[k])
        earlier == {j \in 1..(k - 1) : Path(u.lconfig[j]) = p}
    IN  IF earlier = {} THEN ConfigGet(pre, p[1], p[2], Absent)
        ELSE u.lconfig[CHOOSE j \in earlier : \A i \in earlier : i <= j][3]

\* C15: while the overlay is active it holds, per local option and in list
\* order, the path and what the path read just before that option was
\* written; the release undoes these writes last one first, so a path that
\* the local options name more than once reads after the release what it
\* read before the overlay, and is absent if it was absent.
C15_ReverseUndo ==
    /\ (url.ext /\ pc \in {"job", "exit"})
          => /\ Len(original) = Len(url.lconfig)
             /\ \A k \in 1..Len(original) :
                   original[k] = <<url.lconfig[k][1], url.lconfig[k][2],
                                   PrevReading(url, k)>>
    /\ (url.ext /\ pc \in {"except", "loop", "toplevel", "done"})
          => \A p \in DupPaths(url) : SamePath(store, pre, p)

C15_Witness ==
    /\ url.ext /\ pc = "except"
    /\ Len(url.lconfig) = 2
    /\ Path(url.lconfig[1]) = Path(url.lconfig[2])
    /\ url.lconfig[1][3] # url.lconfig[2][3]
    /\ Path(url.lconfig[1]) \in DOMAIN pre
    /\ jobs[it].store[Path(url.lconfig[1])] = url.lconfig[2][3]
    /\ store[Path(url.lconfig[1])] = pre[Path(url.lconfig[1])]
    /\ store[Path(url.lconfig[1])] # url.lconfig[1][3]

(***************************************************************************)
(* Properties of the order in which the loop treats the items              *)
(***************************************************************************)
\* the index of the last item the loop has finished with
LastDone == IF pc = "loop" THEN it ELSE it - 1

\* C17: only the overlay of the item in hand is ever active, and only
\* around its job; when the loop takes the next item, writes its global
\* options or constructs its job, the overlay of the item before is
\* released: nothing is recorded and the paths it named read as before it;
\* the job of an item is constructed only after the job of the item before
\* has returned or raised and that outcome has been handled.
C17_OneOverlay ==
    /\ original # <<>>
          => pc \in {"job", "exit"} /\ url.ext /\ Len(original) = Len(url.lconfig)
    /\ ((pc \in {"loop", "gconfig"} \/ (pc = "job" /\ ~url.ext))
            /\ LastDone >= 1 /\ urls[LastDone].ext)
          => /\ original = <<>>
             /\ \A p \in LocalPaths(urls[LastDone]) : SamePath(store, pre, p)
    /\ pc \in {"gconfig", "enter", "job"}
          => Len(jobs) = it - 1 /\ outcome = NoOutcome
    /\ Len(jobs) <= it

C17_Witness ==
    /\ pc = "job" /\ ~url.ext /\ it = 2
    /\ urls[1].ext /\ urls[1].lconfig # <<>>
    /\ results = {Outcome("TerminateExtraction", 0)}
    /\ original = <<>>
    /\ jobs[1].store # store

(***************************************************************************)
(* Properties of global and local options of one item naming one path      *)
(***************************************************************************)
\* the paths both lists of u name
SharedPaths(u) == GlobalPaths(u) \cap LocalPaths(u)

\* C18: when the global and the local options of one item name the same
\* path, the job of that item is constructed with the path reading the
\* local value, and once the item is done -- its job returned or raised
\* anything -- the path reads the global value; the order of the two
\* lines in the input file makes no difference.
C18_LocalShadowsGlobal ==
    /\ \A k \in 1..Len(jobs) :
          \A p \in SharedPaths(urls[k]) :
              /\ p \in DOMAIN jobs[k].store
              /\ jobs[k].store[p] = LastValue(urls[k].lconfig, p)
    /\ (url.ext /\ pc \in {"except", "loop", "toplevel", "done"})
          => \A p \in SharedPaths(url) :
                 /\ p \in DOMAIN store
                 /\ store[p] = LastValue(url.gconfig, p)

C18_Witness ==
    /\ pc = "except" /\ url.ext
    /\ fi = 1 /\ Len(CurFile.lines) = 3
    /\ CurFile.lines[1] = LineLocalA1 /\ CurFile.lines[2] = LineGlobalA3
    /\ SharedPaths(url) = {<<GLOBAL, <<"a">>>>}
    /\ jobs[it].store[<<GLOBAL, <<"a">>>>] = JsonVal("int", 1, <<>>)
    /\ store[<<GLOBAL, <<"a">>>>] = JsonVal("int", 3, <<>>)

(***************************************************************************)
(* Properties of global options of items whose job fails                   *)
(***************************************************************************)
\* the two exceptions the loop catches (lines 302-306)
CaughtOutcomes ==
    {Outcome("TerminateExtraction", 0), Outcome("NoExtractorError", 0)}

\* C19: the handlers of TerminateExtraction and NoExtractorError leave the
\* store as it is; in a run where every job so far has raised one of the
\* two, the global options of all items taken so far are in the store, and
\* every job was constructed seeing those of its own and of earlier items
\* at every path its local options do not name.
C19_GlobalsSurviveFailure ==
    /\ [][(pc = "except" /\ outcome \in CaughtOutcomes) => store' = store]_vars
    /\ []((results # {} /\ results \subseteq CaughtOutcomes)
            => /\ \A k \in 1..Len(jobs) :
                     GlobalsVisible(jobs[k].store, k,
                                    AllPaths \ LocalPaths(urls[k]))
               /\ pc \in {"except", "loop", "done"}
                     => GlobalsVisible(store, it, AllPaths))

C19_Witness ==
    /\ pc = "except" /\ it = 3 /\ ~url.ext
    /\ results = CaughtOutcomes
    /\ urls[2].ext /\ Len(urls[2].gconfig) = 1
    /\ Path(urls[2].gconfig[1]) \in DOMAIN jobs[1].store
    /\ jobs[1].store[Path(urls[2].gconfig[1])] # urls[2].gconfig[1][3]
    /\ jobs[3].store[Path(urls[2].gconfig[1])] = urls[2].gconfig[1][3]
    /\ store = jobs[3].store

(***************************************************************************)
(* The loop of lines 292-306 on a plain url and on an ExtendedUrl with     *)
(* empty lists: urls holds items of the two forms with the same value      *)
(***************************************************************************)
MaxItems == 2

EquivItems == {PlainUrl(DirectUrl), ExtendedUrl(DirectUrl, <<>>, <<>>)}

InitEquiv ==
    /\ args_urls = <<>>
    /\ inputfiles = <<>>
    /\ urls \in SeqsUpTo(EquivItems, MaxItems) \ {<<>>}
    /\ options \in {<<>>, <<OptA>>}
    /\ store = SetAll(<<>>, options)
    /\ pformat = TRUE
    /\ InitCommon

NextEquiv ==
    \/ StartLoop \/ NextUrl \/ SetGlobals \/ ApplyEnter \/ RunJob \/ WithExit
    \/ FoldStatus \/ CatchTerminate \/ CatchNoExtractor \/ Propagate
    \/ Return \/ TopLevel

SpecEquiv == InitEquiv /\ [][NextEquiv]_vars

EmptyLists(u) == u.gconfig = <<>> /\ u.lconfig = <<>>

\* the aggregate after an item whose job had outcome o, from aggregate r
ExpectedAggregate(r, o) ==
    CASE o.kind = "return"           -> BitOr(r, o.status)
      [] o.kind = "NoExtractorError" -> BitOr(r, NoExtractorBit)
      [] OTHER                       -> r

\* C12: an item without options is treated in one way, whether it is the
\* plain string or an ExtendedUrl with two empty lists: from the store and
\* the aggregate the loop had when it took the item, the job is constructed
\* from the item's value seeing that store, the store is that store when
\* the job is done, and the aggregate becomes the same function of the old
\* aggregate and the job's outcome, the loop going on or ending alike.
C12_PlainEquivalent ==
    /\ []((it >= 1 /\ EmptyLists(url)
              /\ pc \in {"gconfig", "enter", "job", "exit", "except", "toplevel"})
            => /\ store = start.store
               /\ retval = start.retval
               /\ pc \in {"exit", "except", "toplevel"}
                     => /\ Len(jobs) = it
                        /\ jobs[it] = [value |-> url.value, store |-> start.store])
    /\ [][(pc = "except" /\ EmptyLists(url))
            => /\ store' = store
               /\ retval' = ExpectedAggregate(retval, outcome)
               /\ pc' = IF IsFatal(outcome) THEN "toplevel" ELSE "loop"]_vars

C12_Witness ==
    /\ pc = "except" /\ it = 2
    /\ ~urls[1].ext /\ url.ext /\ EmptyLists(url)
    /\ urls[1].value = url.value
    /\ jobs[1] = jobs[2]
    /\ results = {Outcome("NoExtractorError", 0)}
    /\ retval = NoExtractorBit
    /\ store = start.store /\ store # <<>>

(***************************************************************************)
(* main(), lines 262-276, on several input files                           *)
(***************************************************************************)
MaxFiles == 2
MaxFileLines == 2

FilesLines == {LineUrl1, LineGlobalA3}

SmallFiles ==
    {File("open", <<>>)}
    \cup {File(e, l) : e \in {"none", "read"},
                       l \in SeqsUpTo(FilesLines, MaxFileLines)}

InitFiles ==
    /\ args_urls \in {<<>>, <<PlainUrl(DirectUrl)>>}
    /\ urls = args_urls
    /\ inputfiles \in SeqsUpTo(SmallFiles, MaxFiles) \ {<<>>}
    /\ options = <<>>
    /\ store = SetAll(<<>>, options)
    /\ pformat = TRUE
    /\ InitCommon

NextFiles == OpenInput \/ OpenError \/ ReadLine \/ EndOfFile \/ ReadError

SpecFiles == InitFiles /\ [][NextFiles]_vars

\* the items one parse of the lines ls yields, from the pending lists g
RECURSIVE ParseAll(_, _)
ParseAll(g, ls) ==
    IF ls = <<>> THEN <<>>
    ELSE LET r == ParseLine(g, Head(ls))
         IN  r.out \o ParseAll(r.gen, Tail(ls))

\* the direct urls followed by what the first k input files give when every
\* file that could be opened and read is parsed on its own and the others
\* give nothing
RECURSIVE CollectedSkipping(_)
CollectedSkipping(k) ==
    IF k = 0 THEN args_urls
    ELSE CollectedSkipping(k - 1)
         \o (IF inputfiles[k].err = "none"
             THEN ParseAll(GenInit, inputfiles[k].lines) ELSE <<>>)

InputWarnings == {k \in 1..Len(log) : log[k] = Warning("input file", <<>>)}

\* C14: an input file that cannot be opened or read gives one warning and
\* no item; urls is the direct urls followed by the items of the files
\* that could be read, in order.
C14_FailedSourceSkipped ==
    pc = "inputs"
        => /\ urls = CollectedSkipping(fi)
           /\ Cardinality(InputWarnings)
                  = Cardinality({k \in 1..fi : inputfiles[k].err # "none"})

\* the direct urls followed by what the first k input files give when the
\* lines read of every file are parsed on their own, from empty lists
RECURSIVE CollectedApart(_)
CollectedApart(k) ==
    IF k = 0 THEN args_urls
    ELSE CollectedApart(k - 1) \o ParseAll(GenInit, inputfiles[k].lines)

\* C20: every parse of an input file starts with empty pending lists;
\* what is pending at the end of one file is attached to no item of a later
\* file: urls is the direct urls, unchanged, followed by the items each
\* file gives when it is parsed on its own.
C20_BuffersPrivate ==
    /\ (pc = "parse" /\ lineno = 0) => gen = GenInit
    /\ pc = "inputs" => urls = CollectedApart(fi)
    /\ Len(urls) >= Len(args_urls)
    /\ \A i \in 1..Len(args_urls) : urls[i] = args_urls[i]

C20_Witness ==
    /\ pc = "inputs" /\ fi = 2
    /\ args_urls = <<PlainUrl(DirectUrl)>>
    /\ inputfiles[1] = File("none", <<LineGlobalA3>>)
    /\ inputfiles[2] = File("none", <<LineUrl1>>)
    /\ urls = <<PlainUrl(DirectUrl), PlainUrl(LineUrl1)>>
====
